---- MODULE Spec2Model ----
(***************************************************************************)
(* The websocket pool (Wspool) of heimdallr, its per-connection output     *)
(* task (wsConn.writeLoop) and the part of main that starts the pool,      *)
(* feeds it and waits for it.                                              *)
(*                                                                         *)
(* Channels are Go's unbuffered channels: a send completes only together   *)
(* with a receive, so a send on wspool.register or wspool.unregister is    *)
(* one step with the pool's receive of it; until then the sender is        *)
(* blocked and has changed nothing.  main blocked in its send on           *)
(* wspool.broadcast is mainPc = "send"; a writeLoop blocked in its select  *)
(* is taskPc = "parked".  A panic of the pool's goroutine (send on, or     *)
(* close of, a closed channel) ends the process.                           *)
(*                                                                         *)
(* The module also holds the sample client of the BAPS3 backend            *)
(* (ury-rapid-go.go): its loop that reads the connection a line at a time  *)
(* and hands each line to the tokeniser, and the tokeniser itself.         *)
(***************************************************************************)
EXTENDS Naturals, Integers, Sequences, FiniteSets, TLC

\* ---- bounds of the model ----
NSessions == 2          \* wsConn values that exist
MaxBroadcasts == 2      \* payloads main receives from the connectors
MaxConnectors == 1      \* servers of the configuration
MaxBytes == 4           \* bytes the backend sends on the client's connection

Sessions == 1..NSessions

\* the zero value of []byte, what a receive from a closed channel yields
NilPayload == 0

VARIABLES
    \* Wspool
    connections,    \* wspool.connections (its key set)
    quit,           \* wspool.quit
    wgCount,        \* counter of the sync.WaitGroup shared by main and the pool
    bcClosed,       \* wspool.broadcast has been closed
    offers,         \* the sends blocked on wspool.register and
                    \* wspool.unregister, in the order they were begun
    liveAtClose,    \* history: the pool's set when wspool.broadcast was closed
    \* the goroutine of Wspool.run
    hubPc,          \* "start" | "select" | "shutdown" | "fanout" | "done" | "panicked"
    todo,           \* connections the running range loop has yet to visit
    payload,        \* payload argument of the running handleBroadcast
    \* wsConn
    send,           \* conn.send: "open" | "closed"
    taskPc,         \* writeLoop: "init" | "parked" | "writing" | "pinging" |
                    \*            "closing" | "framed" | "done"
    handed,         \* payloads received from conn.send, in order
    closeFrames,    \* close messages written to conn.ws
    wsClosed,       \* calls of conn.ws.Close
    tickerStopped,  \* pingTicker.Stop has run
    \* main
    mainPc,         \* "loop" | "send" | "wait" | "exited"
    mainMsg,        \* the payload main is sending
    nConn,          \* len(connectors)
    connDones,      \* wg.Done calls the connector goroutines still owe
    \* history
    processed,      \* payload broadcasts the pool has received
    regAt,          \* value of processed when the connection entered the set it
                    \* is in; 0 for a connection that is not in the set
    doneCount,      \* calls of wg.Done by the pool
    event,          \* what the step that led to this state did to which
                    \* connection, when it was a step of the pool on a connection
    \* the client of the backend (ury-rapid-go.go) and its tokeniser
    wire,           \* bytes the backend has sent that nothing has taken yet
    taken,          \* bytes read from the connection, in order
    fed,            \* bytes passed to Tokeniser.Parse, in order
    cuts,           \* length of the argument of each Parse call so far
    tokBuf,         \* the tokeniser's buffer: bytes of the incomplete line
    tokOut          \* lines the Parse calls have returned, in order

hubVars == <<connections, quit, hubPc, todo, payload>>
chanVars == <<bcClosed, offers, liveAtClose>>
connVars == <<send, taskPc, handed, closeFrames, wsClosed, tickerStopped>>
mainVars == <<mainPc, mainMsg, nConn, connDones>>
histVars == <<processed, regAt, doneCount>>
poolVars == <<hubVars, chanVars, connVars, mainVars, histVars, wgCount, event>>
clientVars == <<wire, taken, fed, cuts, tokBuf, tokOut>>
vars == <<poolVars, clientVars>>

\* The process is alive: main has not reached os.Exit and no goroutine panicked.
Running == mainPc # "exited" /\ hubPc # "panicked"

\* State after main has executed `go wspool.run()` (main.go:89); the
\* connections exist with their send channels made, no writeLoop started.
PoolInit ==
    /\ connections = {}
    /\ quit = FALSE
    /\ nConn \in 0..MaxConnectors
    /\ wgCount = 2 * nConn
    /\ connDones = 2 * nConn
    /\ bcClosed = FALSE
    /\ offers = <<>>
    /\ liveAtClose = {}
    /\ hubPc = "start"
    /\ todo = {}
    /\ payload = NilPayload
    /\ send = [s \in Sessions |-> "open"]
    /\ taskPc = [s \in Sessions |-> "init"]
    /\ handed = [s \in Sessions |-> <<>>]
    /\ closeFrames = [s \in Sessions |-> 0]
    /\ wsClosed = [s \in Sessions |-> 0]
    /\ tickerStopped = [s \in Sessions |-> FALSE]
    /\ mainPc = "loop"
    /\ mainMsg = NilPayload
    /\ processed = 0
    /\ regAt = [s \in Sessions |-> 0]
    /\ doneCount = 0
    /\ event = [kind |-> "none", conn |-> 0]

\* ury-rapid-go.go:17: a new tokeniser, nothing read from the connection.
ClientStart ==
    /\ taken = <<>>
    /\ fed = <<>>
    /\ cuts = <<>>
    /\ tokBuf = <<>>
    /\ tokOut = <<>>

\* heimdallr itself: the pool, and a backend that sends the client nothing.
Init == PoolInit /\ ClientStart /\ wire = <<>>

\* ---- the record of the last step ----

\* The step is the pool's step of the given kind on conn: "register",
\* "registerDup", "unregister", "unregisterAbsent", "handoff", "evict" or
\* "shutdownClose".
Did(kind, conn) == event' = [kind |-> kind, conn |-> conn]

\* Any other step.
NoEvent == event' = [kind |-> "none", conn |-> 0]

\* ---- Wspool (websocket.go) ----

\* websocket.go:72: the send case of the select can proceed only when a
\* receiver is blocked on the unbuffered conn.send.
Receiving(conn) == taskPc[conn] = "parked"

\* closeConn without its close(conn.send).
closeConnNoClose(conn) ==
    /\ connections' = connections \ {conn}
    /\ regAt' = [regAt EXCEPT ![conn] = 0]
    /\ UNCHANGED <<send, taskPc>>

\* closeConn without its delete(wspool.connections, conn).
closeConnNoDelete(conn) ==
    /\ UNCHANGED <<connections, regAt>>
    /\ IF send[conn] = "closed"
       THEN UNCHANGED <<send, taskPc>>
       ELSE /\ send' = [send EXCEPT ![conn] = "closed"]
            /\ taskPc' = IF taskPc[conn] = "parked"
                         THEN [taskPc EXCEPT ![conn] = "closing"]
                         ELSE taskPc

\* websocket.go:36-39.  close of a closed channel panics; a receiver blocked
\* on the channel is woken with ok = false.
closeConn(conn) ==
    /\ connections' = connections \ {conn}
    /\ regAt' = [regAt EXCEPT ![conn] = 0]
    /\ IF send[conn] = "closed"
       THEN UNCHANGED <<send, taskPc>>
       ELSE /\ send' = [send EXCEPT ![conn] = "closed"]
            /\ taskPc' = IF taskPc[conn] = "parked"
                         THEN [taskPc EXCEPT ![conn] = "closing"]
                         ELSE taskPc

\* closeConn(conn) panics
closePanics(conn) == send[conn] = "closed"

\* A range loop that ends once an entry was deleted.
RangeRestBreak(conn) == IF conn \in connections' THEN todo \ {conn} ELSE {}

\* What a `for conn := range wspool.connections` loop has left to visit once
\* the iteration for conn has run: an entry deleted before it is reached is
\* not produced.
RangeRest(conn) == (todo \ {conn}) \cap connections'

\* The test of wspool.quit without the break that follows wg.Done.
LoopEndNoBreak ==
    IF quit
    THEN /\ doneCount' = doneCount + 1
         /\ IF wgCount = 0
            THEN hubPc' = "panicked" /\ UNCHANGED wgCount
            ELSE hubPc' = "select" /\ wgCount' = wgCount - 1
    ELSE /\ hubPc' = "select"
         /\ UNCHANGED <<wgCount, doneCount>>

\* websocket.go:55-58: the test of wspool.quit that ends each iteration of run.
LoopEnd ==
    IF quit
    THEN /\ doneCount' = doneCount + 1
         /\ IF wgCount = 0
            THEN hubPc' = "panicked" /\ UNCHANGED wgCount
            ELSE hubPc' = "done" /\ wgCount' = wgCount - 1
    ELSE /\ hubPc' = "select"
         /\ UNCHANGED <<wgCount, doneCount>>

\* websocket.go:43
HubStart ==
    /\ Running /\ hubPc = "start"
    /\ wgCount' = wgCount + 1
    /\ hubPc' = "select"
    /\ NoEvent
    /\ UNCHANGED <<clientVars, connections, quit, todo, payload, chanVars, connVars, mainVars,
                   histVars>>

\* A register that replaces the entry of a connection already in the set,
\* closing the channel of the entry it replaces.
HubRegisterReplace(conn) ==
    /\ Running /\ hubPc = "select"
    /\ connections' = connections \cup {conn}
    /\ regAt' = IF conn \in connections THEN regAt
                ELSE [regAt EXCEPT ![conn] = processed]
    /\ send' = IF conn \in connections THEN [send EXCEPT ![conn] = "closed"]
               ELSE send
    /\ Did(IF conn \in connections THEN "registerDup" ELSE "register", conn)
    /\ LoopEnd
    /\ UNCHANGED <<clientVars, quit, todo, payload, bcClosed, liveAtClose, taskPc, handed,
                   closeFrames, wsClosed, tickerStopped, mainVars, processed>>

\* websocket.go:48-49, then 55-58
HubRegister(conn) ==
    /\ Running /\ hubPc = "select"
    /\ connections' = connections \cup {conn}
    /\ regAt' = IF conn \in connections THEN regAt
                ELSE [regAt EXCEPT ![conn] = processed]
    /\ Did(IF conn \in connections THEN "registerDup" ELSE "register", conn)
    /\ LoopEnd
    /\ UNCHANGED <<clientVars, quit, todo, payload, bcClosed, liveAtClose, connVars, mainVars,
                   processed>>

\* An unregister without the test that the connection is in the set.
HubUnregisterNoCheck(conn) ==
    /\ Running /\ hubPc = "select"
    /\ closeConn(conn)
    /\ Did(IF conn \in connections THEN "unregister" ELSE "unregisterAbsent", conn)
    /\ IF closePanics(conn)
       THEN hubPc' = "panicked" /\ UNCHANGED <<wgCount, doneCount>>
       ELSE LoopEnd
    /\ UNCHANGED <<clientVars, quit, todo, payload, bcClosed, liveAtClose, handed, closeFrames,
                   wsClosed, tickerStopped, mainVars, processed>>

\* websocket.go:50-53, then 55-58
HubUnregister(conn) ==
    /\ Running /\ hubPc = "select"
    /\ IF conn \in connections
       THEN /\ closeConn(conn)
            /\ Did("unregister", conn)
            /\ IF closePanics(conn)
               THEN hubPc' = "panicked" /\ UNCHANGED <<wgCount, doneCount>>
               ELSE LoopEnd
       ELSE /\ UNCHANGED <<connections, send, taskPc, regAt>>
            /\ Did("unregisterAbsent", conn)
            /\ LoopEnd
    /\ UNCHANGED <<clientVars, quit, todo, payload, bcClosed, liveAtClose, handed, closeFrames,
                   wsClosed, tickerStopped, mainVars, processed>>

\* A receive on wspool.broadcast that yields any of the payloads sent so far,
\* as when each send is made from a goroutine of its own.
HubRecvPayloadAnyOrder ==
    /\ Running /\ hubPc = "select" /\ mainPc = "send"
    /\ payload' \in 1..mainMsg
    /\ mainPc' = "loop"
    /\ processed' = processed + 1
    /\ hubPc' = "fanout"
    /\ todo' = connections
    /\ NoEvent
    /\ UNCHANGED <<clientVars, connections, quit, chanVars, connVars, mainMsg, nConn,
                   connDones, regAt, doneCount, wgCount>>

\* A receive of a payload where handleBroadcast takes the `if !ok` block.
HubRecvPayloadInverted ==
    /\ Running /\ hubPc = "select" /\ mainPc = "send"
    /\ payload' = mainMsg
    /\ mainPc' = "loop"
    /\ processed' = processed + 1
    /\ hubPc' = "shutdown"
    /\ todo' = connections
    /\ NoEvent
    /\ UNCHANGED <<clientVars, connections, quit, chanVars, connVars, mainMsg, nConn,
                   connDones, regAt, doneCount, wgCount>>

\* websocket.go:46-47 with ok = true: the rendezvous with main's send
\* (main.go:95); handleBroadcast skips the `if !ok` block and starts the
\* range loop of line 70.
HubRecvPayload ==
    /\ Running /\ hubPc = "select" /\ mainPc = "send"
    /\ payload' = mainMsg
    /\ mainPc' = "loop"
    /\ processed' = processed + 1
    /\ hubPc' = "fanout"
    /\ todo' = connections
    /\ NoEvent
    /\ UNCHANGED <<clientVars, connections, quit, chanVars, connVars, mainMsg, nConn,
                   connDones, regAt, doneCount, wgCount>>

\* websocket.go:46-47 with ok = false: the receive from the closed channel
\* yields the zero payload; handleBroadcast starts the range loop of line 65.
HubRecvClosed ==
    /\ Running /\ hubPc = "select" /\ bcClosed
    /\ payload' = NilPayload
    /\ hubPc' = "shutdown"
    /\ todo' = connections
    /\ NoEvent
    /\ UNCHANGED <<clientVars, connections, quit, chanVars, connVars, mainVars, histVars,
                   wgCount>>

\* websocket.go:65-67, one iteration
HubShutdownStep ==
    /\ Running /\ hubPc = "shutdown"
    /\ \E conn \in todo :
         /\ closeConn(conn)
         /\ Did("shutdownClose", conn)
         /\ todo' = RangeRest(conn)
         /\ hubPc' = IF closePanics(conn) THEN "panicked" ELSE "shutdown"
    /\ UNCHANGED <<clientVars, quit, payload, chanVars, handed, closeFrames, wsClosed,
                   tickerStopped, mainVars, processed, doneCount, wgCount>>

\* websocket.go:68, then the range loop of line 70 starts
HubShutdownEnd ==
    /\ Running /\ hubPc = "shutdown" /\ todo = {}
    /\ quit' = TRUE
    /\ hubPc' = "fanout"
    /\ todo' = connections
    /\ NoEvent
    /\ UNCHANGED <<clientVars, connections, payload, chanVars, connVars, mainVars, histVars,
                   wgCount>>

\* One iteration of the range loop of line 70 with a select that has no
\* default case: the send blocks until the connection receives.
HubFanoutStepBlocking ==
    /\ Running /\ hubPc = "fanout"
    /\ \E conn \in todo :
         IF send[conn] = "closed"
         THEN /\ hubPc' = "panicked"
              /\ NoEvent
              /\ UNCHANGED <<connections, todo, send, taskPc, handed, regAt>>
         ELSE /\ Receiving(conn)
              /\ handed' = [handed EXCEPT ![conn] = Append(@, payload)]
              /\ taskPc' = [taskPc EXCEPT ![conn] = "writing"]
              /\ todo' = todo \ {conn}
              /\ Did("handoff", conn)
              /\ UNCHANGED <<connections, send, hubPc, regAt>>
    /\ UNCHANGED <<clientVars, quit, payload, chanVars, closeFrames, wsClosed, tickerStopped,
                   mainVars, processed, doneCount, wgCount>>

\* One iteration of the range loop of line 70 with an empty default case:
\* the payload is dropped and the connection kept.
HubFanoutStepDrop ==
    /\ Running /\ hubPc = "fanout"
    /\ \E conn \in todo :
         IF send[conn] = "closed"
         THEN /\ hubPc' = "panicked"
              /\ NoEvent
              /\ UNCHANGED <<connections, todo, send, taskPc, handed, regAt>>
         ELSE IF Receiving(conn)
         THEN /\ handed' = [handed EXCEPT ![conn] = Append(@, payload)]
              /\ taskPc' = [taskPc EXCEPT ![conn] = "writing"]
              /\ todo' = todo \ {conn}
              /\ Did("handoff", conn)
              /\ UNCHANGED <<connections, send, hubPc, regAt>>
         ELSE /\ todo' = todo \ {conn}
              /\ NoEvent
              /\ UNCHANGED <<connections, send, taskPc, handed, hubPc, regAt>>
    /\ UNCHANGED <<clientVars, quit, payload, chanVars, closeFrames, wsClosed, tickerStopped,
                   mainVars, processed, doneCount, wgCount>>

\* websocket.go:70-76, one iteration: the select with a default case.  A send
\* case on a closed channel panics.
HubFanoutStep ==
    /\ Running /\ hubPc = "fanout"
    /\ \E conn \in todo :
         IF send[conn] = "closed"
         THEN /\ hubPc' = "panicked"
              /\ NoEvent
              /\ UNCHANGED <<connections, todo, send, taskPc, handed, regAt>>
         ELSE IF Receiving(conn)
         THEN /\ handed' = [handed EXCEPT ![conn] = Append(@, payload)]
              /\ taskPc' = [taskPc EXCEPT ![conn] = "writing"]
              /\ todo' = todo \ {conn}
              /\ Did("handoff", conn)
              /\ UNCHANGED <<connections, send, hubPc, regAt>>
         ELSE /\ closeConn(conn)
              /\ todo' = RangeRest(conn)
              /\ Did("evict", conn)
              /\ UNCHANGED <<handed, hubPc>>
    /\ UNCHANGED <<clientVars, quit, payload, chanVars, closeFrames, wsClosed, tickerStopped,
                   mainVars, processed, doneCount, wgCount>>

\* websocket.go:77 (handleBroadcast returns), then 55-58
HubFanoutEnd ==
    /\ Running /\ hubPc = "fanout" /\ todo = {}
    /\ LoopEnd
    /\ NoEvent
    /\ UNCHANGED <<clientVars, connections, quit, todo, payload, chanVars, connVars, mainVars,
                   processed, regAt>>

\* ---- wsConn.writeLoop (websocket.go) ----

\* A deferred function that stops the ticker and leaves the websocket open.
DeferredNoClose(c) ==
    /\ tickerStopped' = [tickerStopped EXCEPT ![c] = TRUE]
    /\ UNCHANGED wsClosed
    /\ taskPc' = [taskPc EXCEPT ![c] = "done"]

\* websocket.go:109-113, the deferred function: it runs on every return.
Deferred(c) ==
    /\ tickerStopped' = [tickerStopped EXCEPT ![c] = TRUE]
    /\ wsClosed' = [wsClosed EXCEPT ![c] = @ + 1]
    /\ taskPc' = [taskPc EXCEPT ![c] = "done"]

\* websocket.go:115-129: writeLoop reaches its select.  With conn.send closed
\* the receive case is ready (ok = false), and so may be the ticker's;
\* otherwise the goroutine blocks, a receiver on conn.send.  Between the
\* return of a write and this point the goroutine is no receiver, as during
\* the write.
EnterSelect(c) ==
    IF send[c] = "closed"
    THEN \E next \in {"closing", "pinging"} : taskPc' = [taskPc EXCEPT ![c] = next]
    ELSE taskPc' = [taskPc EXCEPT ![c] = "parked"]

\* websocket.go:108-115: the goroutine of writeLoop starts (its `go`
\* statement is in the upgrade handler) and reaches the select; the new
\* ticker has not fired.
TaskStart(c) ==
    /\ Running /\ taskPc[c] = "init"
    /\ NoEvent
    /\ taskPc' = [taskPc EXCEPT ![c] = IF send[c] = "closed" THEN "closing"
                                       ELSE "parked"]
    /\ UNCHANGED <<clientVars, hubVars, chanVars, send, handed, closeFrames, wsClosed,
                   tickerStopped, mainVars, histVars, wgCount>>

\* websocket.go:125: the blocked select receives a tick.
TaskTick(c) ==
    /\ Running /\ taskPc[c] = "parked"
    /\ NoEvent
    /\ taskPc' = [taskPc EXCEPT ![c] = "pinging"]
    /\ UNCHANGED <<clientVars, hubVars, chanVars, send, handed, closeFrames, wsClosed,
                   tickerStopped, mainVars, histVars, wgCount>>

\* A writeLoop that, when its write fails, has itself taken out of the pool's
\* set before it returns.
TaskWriteDoneUnregisters(c) ==
    /\ Running /\ taskPc[c] \in {"writing", "pinging"}
    /\ \E err \in BOOLEAN :
         IF err
         THEN /\ Deferred(c)
              /\ connections' = connections \ {c}
              /\ send' = [send EXCEPT ![c] = "closed"]
              /\ regAt' = [regAt EXCEPT ![c] = 0]
              /\ Did("unregister", c)
         ELSE /\ EnterSelect(c)
              /\ NoEvent
              /\ UNCHANGED <<wsClosed, tickerStopped, connections, send, regAt>>
    /\ UNCHANGED <<clientVars, quit, hubPc, todo, payload, chanVars, handed, closeFrames,
                   mainVars, processed, doneCount, wgCount>>

\* websocket.go:122-124 and 126-128: c.write returns, with an error
\* (writeLoop returns) or not (the loop goes round to the select).
TaskWriteDone(c) ==
    /\ Running /\ taskPc[c] \in {"writing", "pinging"}
    /\ NoEvent
    /\ \E err \in BOOLEAN :
         IF err
         THEN Deferred(c)
         ELSE /\ EnterSelect(c)
              /\ UNCHANGED <<wsClosed, tickerStopped>>
    /\ UNCHANGED <<clientVars, hubVars, chanVars, send, handed, closeFrames, mainVars,
                   histVars, wgCount>>

\* writeLoop returning on the receive of ok = false without writing the
\* close message.
TaskCloseFrameSkip(c) ==
    /\ Running /\ taskPc[c] = "closing"
    /\ NoEvent
    /\ taskPc' = [taskPc EXCEPT ![c] = "framed"]
    /\ UNCHANGED <<clientVars, hubVars, chanVars, send, handed, closeFrames, wsClosed,
                   tickerStopped, mainVars, histVars, wgCount>>

\* websocket.go:117-120: the receive yielded ok = false; the close message is
\* written and its error dropped.
TaskCloseFrame(c) ==
    /\ Running /\ taskPc[c] = "closing"
    /\ NoEvent
    /\ closeFrames' = [closeFrames EXCEPT ![c] = @ + 1]
    /\ taskPc' = [taskPc EXCEPT ![c] = "framed"]
    /\ UNCHANGED <<clientVars, hubVars, chanVars, send, handed, wsClosed, tickerStopped,
                   mainVars, histVars, wgCount>>

\* websocket.go:121: the return that follows the close message; the deferred
\* function runs.
TaskReturn(c) ==
    /\ Running /\ taskPc[c] = "framed"
    /\ NoEvent
    /\ Deferred(c)
    /\ UNCHANGED <<clientVars, hubVars, chanVars, send, handed, closeFrames, mainVars,
                   histVars, wgCount>>

\* ---- the upgrade handler: senders on the pool's ports ----

\* The connection has never been sent on wspool.register.  (The pool keeps a
\* registered connection in the set until closeConn closes its channel.)
Fresh(c) == c \notin connections /\ send[c] = "open"

\* The handler that made a connection sends it on wspool.register.  The
\* connections are numbered in the order of their first registration.
RegisterNew ==
    \E c \in Sessions :
        /\ Fresh(c)
        /\ \A d \in 1..(c - 1) : ~Fresh(d)
        /\ HubRegister(c)
        /\ UNCHANGED offers

\* A connection that is in the pool's set is sent on wspool.register again.
RegisterDup ==
    \E c \in Sessions : c \in connections /\ HubRegister(c) /\ UNCHANGED offers

\* A connection that the pool has closed is sent on wspool.register again.
RegisterClosed ==
    \E c \in Sessions :
        /\ c \notin connections /\ send[c] = "closed"
        /\ HubRegister(c)
        /\ UNCHANGED offers

\* A handler sends a connection on wspool.unregister.
Unregister == \E c \in Sessions : HubUnregister(c) /\ UNCHANGED offers

\* ---- the same senders, with the time a send spends blocked ----

\* The handler of c is blocked in a send on one of the pool's channels.
Pending(c) == \E i \in 1..Len(offers) : offers[i].conn = c

\* offers[i] is the oldest send blocked on the channel: the one a receive on
\* that channel completes (a channel serves its blocked senders in order).
FirstOf(port, i) ==
    /\ offers[i].port = port
    /\ \A j \in 1..(i - 1) : offers[j].port # port

\* offers with its i-th entry taken out
Without(i) == SubSeq(offers, 1, i - 1) \o SubSeq(offers, i + 1, Len(offers))

\* The handler that made a connection begins the send of it on
\* wspool.register; nobody receives yet.
OfferRegister ==
    \E c \in Sessions :
        /\ Running /\ Fresh(c) /\ ~Pending(c)
        /\ \A d \in 1..(c - 1) : ~Fresh(d) \/ Pending(d)
        /\ offers' = Append(offers, [port |-> "register", conn |-> c])
        /\ NoEvent
        /\ UNCHANGED <<clientVars, hubVars, bcClosed, liveAtClose, connVars, mainVars, histVars,
                       wgCount>>

\* A handler begins the send of its connection on wspool.unregister.
OfferUnregister ==
    \E c \in Sessions :
        /\ Running /\ ~Pending(c)
        /\ offers' = Append(offers, [port |-> "unregister", conn |-> c])
        /\ NoEvent
        /\ UNCHANGED <<clientVars, hubVars, bcClosed, liveAtClose, connVars, mainVars, histVars,
                       wgCount>>

\* websocket.go:48: the select of run takes the receive on wspool.register.
RecvRegister ==
    \E i \in 1..Len(offers) :
        /\ FirstOf("register", i)
        /\ HubRegister(offers[i].conn)
        /\ offers' = Without(i)

\* websocket.go:50: the select of run takes the receive on wspool.unregister.
RecvUnregister ==
    \E i \in 1..Len(offers) :
        /\ FirstOf("unregister", i)
        /\ HubUnregister(offers[i].conn)
        /\ offers' = Without(i)

\* ---- main (main.go) ----

\* main.go:93-95: a message arrives from a connector; main goes to send its
\* text on wspool.broadcast.  Payloads are numbered in the order main sends them.
MainRecvData ==
    /\ Running /\ mainPc = "loop" /\ nConn > 0 /\ mainMsg < MaxBroadcasts
    /\ NoEvent
    /\ mainMsg' = mainMsg + 1
    /\ mainPc' = "send"
    /\ UNCHANGED <<clientVars, hubVars, chanVars, connVars, nConn, connDones, histVars, wgCount>>

\* main.go:96-98: SIGINT; the connectors' request channels and the broadcast
\* channel are closed; main goes to wg.Wait.
MainSigint ==
    /\ Running /\ mainPc = "loop"
    /\ NoEvent
    /\ bcClosed' = TRUE
    /\ mainPc' = "wait"
    /\ UNCHANGED <<clientVars, hubVars, offers, liveAtClose, connVars, mainMsg, nConn, connDones,
                   histVars, wgCount>>

\* The same step, with the pool's set at that moment put on record.
MainSigintLive ==
    /\ Running /\ mainPc = "loop"
    /\ NoEvent
    /\ bcClosed' = TRUE
    /\ liveAtClose' = connections
    /\ mainPc' = "wait"
    /\ UNCHANGED <<clientVars, hubVars, offers, connVars, mainMsg, nConn, connDones, histVars,
                   wgCount>>

\* A goroutine of a connector whose request channel was closed ends with
\* wg.Done (main.go:84-86 counts two per connector).
ConnectorDone ==
    /\ Running /\ mainPc = "wait" /\ connDones > 0 /\ wgCount > 0
    /\ NoEvent
    /\ connDones' = connDones - 1
    /\ wgCount' = wgCount - 1
    /\ UNCHANGED <<clientVars, hubVars, chanVars, connVars, mainPc, mainMsg, nConn, histVars>>

\* main.go:99-101: wg.Wait returns when the counter is zero; os.Exit ends the
\* process.
MainWaitReturn ==
    /\ Running /\ mainPc = "wait" /\ wgCount = 0
    /\ NoEvent
    /\ mainPc' = "exited"
    /\ UNCHANGED <<clientVars, hubVars, chanVars, connVars, mainMsg, nConn, connDones,
                   histVars, wgCount>>

\* The pool's goroutine, apart from its receives on register and unregister.
HubStep ==
    \/ HubStart
    \/ HubRecvPayload
    \/ HubRecvClosed
    \/ HubShutdownStep
    \/ HubShutdownEnd
    \/ HubFanoutStep
    \/ HubFanoutEnd

TaskStep ==
    \/ \E c \in Sessions : TaskStart(c)
    \/ \E c \in Sessions : TaskTick(c)
    \/ \E c \in Sessions : TaskWriteDone(c)
    \/ \E c \in Sessions : TaskCloseFrame(c)
    \/ \E c \in Sessions : TaskReturn(c)

\* The pool, the output tasks and main up to its wg.Wait; no connection is
\* sent on wspool.register after the pool has closed it.
Next ==
    \/ HubStep
    \/ TaskStep
    \/ RegisterNew
    \/ RegisterDup
    \/ Unregister
    \/ MainRecvData
    \/ MainSigint

\* The same, where handlers may send any connection on wspool.register at
\* any time.
NextOpen == Next \/ RegisterClosed

\* The same as Next, to the end of the process: with the connectors'
\* goroutines ending and main returning from wg.Wait.
NextAll == Next \/ ConnectorDone \/ MainWaitReturn

\* The same program as Next, where the sends on wspool.register and
\* wspool.unregister are begun in one step and received in a later one: each
\* handler registers the connection it made once, and may unregister it at
\* any time.
NextOffer ==
    \/ HubStep
    \/ TaskStep
    \/ OfferRegister
    \/ OfferUnregister
    \/ RecvRegister
    \/ RecvUnregister
    \/ MainRecvData
    \/ MainSigint

\* A configuration of one server.
InitOne == Init /\ nConn = 1

Spec == InitOne /\ [][Next]_vars

SpecOpen == InitOne /\ [][NextOpen]_vars

SpecAll == Init /\ [][NextAll]_vars

SpecOffer == InitOne /\ [][NextOffer]_vars

\* The program to the end of the process, as NextAll, keeping the record of
\* the pool's set at the close of wspool.broadcast.
NextExit ==
    \/ HubStep
    \/ TaskStep
    \/ RegisterNew
    \/ RegisterDup
    \/ Unregister
    \/ MainRecvData
    \/ MainSigintLive
    \/ ConnectorDone
    \/ MainWaitReturn

SpecExit == Init /\ [][NextExit]_vars

\* SpecOffer where the pool's goroutine is scheduled (it takes a step when
\* it can) and its select, which chooses at random among the channels that
\* are ready, does not pass over a ready channel for ever.  Nothing is
\* assumed of the writeLoops, of the handlers or of main.
SpecOfferFair ==
    /\ SpecOffer
    /\ WF_vars(HubStep)
    /\ SF_vars(RecvRegister)
    /\ SF_vars(RecvUnregister)

\* ---- properties ----

\* The pool is running the range loop of websocket.go:70 and this step is
\* its iteration for c.
Attempt(c) == hubPc = "fanout" /\ c \in todo /\ c \notin todo'

\* The pool is running the range loop of websocket.go:65 and this step is
\* its iteration for c.
ShutdownVisit(c) == hubPc = "shutdown" /\ c \in todo /\ c \notin todo'

\* C1: a payload broadcast visits every connection of the set; a connection
\* whose writeLoop is not blocked in its select when the pool tries the send
\* (it is in a write of a payload or of a ping, has not started, or has
\* returned) is removed from the set and its channel closed in that step of
\* the same event; and a connection whose channel is closed is never handed
\* a payload, its channel stays closed and it stays out of the set.
C1_EvictsNonReceivers ==
    [][\A c \in Sessions :
        /\ (hubPc = "select" /\ hubPc' = "fanout") => todo' = connections
        /\ (hubPc = "fanout" /\ hubPc' # "fanout") => todo = {}
        /\ (Attempt(c) /\ taskPc[c] # "parked")
              => /\ c \notin connections'
                 /\ send'[c] = "closed"
                 /\ handed'[c] = handed[c]
                 /\ hubPc' = "fanout"
        /\ send[c] = "closed"
              => /\ handed'[c] = handed[c]
                 /\ send'[c] = "closed"
                 /\ c \notin connections']_vars

\* C1 witness: the step just taken evicted a connection that had been handed
\* the first payload and was still writing it when the second was broadcast.
C1_Witness ==
    /\ event.kind = "evict"
    /\ hubPc = "fanout" /\ payload = 2
    /\ taskPc[event.conn] = "writing"
    /\ handed[event.conn] = <<1>>
    /\ send[event.conn] = "closed"
    /\ event.conn \notin connections

\* A step of the pool inside the range loop of websocket.go:70 that ends the
\* loop or leaves it fewer connections to visit.
FanoutProgress ==
    /\ HubFanoutStep \/ HubFanoutEnd
    /\ hubPc' # "fanout" \/ Cardinality(todo') < Cardinality(todo)

\* C2: whenever the pool is inside the fan-out of a broadcast, a step of the
\* pool itself that advances the fan-out is possible, whatever the state of
\* the writeLoops: the pool never has to wait for one of them.
C2_BroadcastNeverBlocks == hubPc = "fanout" => ENABLED FanoutProgress

\* C2 witness: the pool is in the fan-out of a payload and no connection it
\* has still to visit is receiving: one is in a write, one never started or
\* has returned.
C2_Witness ==
    /\ hubPc = "fanout" /\ ~quit
    /\ \E c \in todo, d \in todo :
         /\ taskPc[c] = "writing"
         /\ taskPc[d] \in {"init", "done"}

\* C3: in the fan-out of a payload, a connection whose writeLoop is blocked
\* in its select when the pool tries the send is handed that payload and
\* stays in the set with its channel open; a payload is handed only in the
\* one visit the loop pays the connection; each step of the loop takes one
\* connection off the ones to visit, whether it evicts it or not; the loop
\* starts with the whole set to visit and ends with nothing left to visit.
C3_ReceiversHandedOnce ==
    [][\A c \in Sessions :
        /\ (hubPc = "select" /\ hubPc' = "fanout") => todo' = connections
        /\ (hubPc = "fanout" /\ hubPc' # "fanout") => todo = {}
        /\ (hubPc = "fanout" /\ hubPc' = "fanout")
              => todo' \subseteq todo /\ Cardinality(todo \ todo') <= 1
        /\ (Attempt(c) /\ taskPc[c] = "parked")
              => /\ handed'[c] = Append(handed[c], payload)
                 /\ payload # NilPayload
                 /\ c \in connections'
                 /\ send'[c] = "open"
        /\ handed'[c] # handed[c]
              => Attempt(c) /\ handed'[c] = Append(handed[c], payload)]_vars

\* C3 witness: the fan-out of the first payload has visited every
\* connection; the step just taken handed it to one connection, and another
\* one was evicted in the same event.
C3_Witness ==
    /\ event.kind = "handoff"
    /\ hubPc = "fanout" /\ payload = 1 /\ todo = {}
    /\ handed[event.conn] = <<1>>
    /\ event.conn \in connections
    /\ \E d \in Sessions \ {event.conn} :
         /\ send[d] = "closed" /\ handed[d] = <<>>
         /\ taskPc[d] \in {"writing", "pinging", "init", "done"}

\* 1 while the running fan-out has still to visit c
ToVisit(c) == IF hubPc = "fanout" /\ c \in todo THEN 1 ELSE 0

\* C4: the payloads handed to any connection are consecutive payloads in the
\* order of their broadcast; for a connection in the set they are all the
\* payloads broadcast since it entered the set (but the current one, while
\* the fan-out has still to visit it).  So a connection that misses a
\* payload is out of the set.
C4_FifoPerSurvivor ==
    \A c \in Sessions :
        /\ \A i \in 1..(Len(handed[c]) - 1) : handed[c][i + 1] = handed[c][i] + 1
        /\ c \in connections
              => /\ Len(handed[c]) = processed - regAt[c] - ToVisit(c)
                 /\ \A i \in 1..Len(handed[c]) : handed[c][i] = regAt[c] + i

\* C4 witness: two payloads were broadcast; one connection is in the set
\* and was handed both in order, another missed the second and is out.
C4_Witness ==
    /\ hubPc = "select" /\ processed = 2
    /\ \E c \in connections, d \in Sessions \ connections :
         /\ handed[c] = <<1, 2>>
         /\ handed[d] = <<1>>
         /\ send[d] = "closed"

\* C5: the shutdown event visits every connection of the set, closes the
\* channel of each (open until then) and removes it; it hands no payload to
\* anyone, the zero payload included; when the closing loop ends, quit is
\* set, the set is empty and the loop of line 70 finds nothing to visit; no
\* channel is closed twice (the pool does not panic).
C5_ShutdownClosesAll ==
    [][/\ (hubPc = "select" /\ hubPc' = "shutdown") => todo' = connections
       /\ (hubPc = "shutdown" /\ hubPc' = "shutdown")
             => todo' \subseteq todo /\ Cardinality(todo \ todo') <= 1
       /\ \A c \in Sessions :
             ShutdownVisit(c)
                => send[c] = "open" /\ send'[c] = "closed" /\ c \notin connections'
       /\ (hubPc = "shutdown" /\ hubPc' # "shutdown")
             => /\ todo = {}
                /\ quit' /\ connections' = {}
                /\ hubPc' = "fanout" /\ todo' = {}
       /\ (hubPc = "shutdown" \/ quit) => handed' = handed
       /\ quit' => connections' = {}
       /\ hubPc' # "panicked"]_vars

\* C5 witness: the shutdown event found two connections in the set; the
\* step just taken closed the channel of one, which was blocked in its
\* select and now holds the close signal, and the other is next.
C5_Witness ==
    /\ event.kind = "shutdownClose"
    /\ hubPc = "shutdown"
    /\ send[event.conn] = "closed"
    /\ taskPc[event.conn] = "closing"
    /\ event.conn \notin connections
    /\ Cardinality(todo) = 1 /\ todo = connections
    /\ \A d \in todo : send[d] = "open" /\ handed[d] # <<>>

\* A receive of the pool on one of its three channels.
HubEvent ==
    \/ RegisterNew
    \/ RegisterDup
    \/ Unregister
    \/ HubRecvPayload
    \/ HubRecvClosed

\* C6: wg.Done is called at most once, and exactly when the loop of run
\* ends; from the receive of the closed broadcast channel on, the pool
\* never returns to its select: it receives nothing on register, unregister
\* or broadcast, and once the loop has ended the pool takes no step at all.
C6_ShutdownOnce ==
    /\ doneCount <= 1
    /\ doneCount = 1 <=> hubPc = "done"
    /\ (hubPc = "shutdown" \/ quit)
          => /\ bcClosed
             /\ hubPc \in {"shutdown", "fanout", "done"}
             /\ ~ENABLED HubEvent
    /\ hubPc = "done" => quit /\ ~ENABLED HubStep

\* C6 witness: the loop has ended after one wg.Done; a connection that was
\* in the set has its channel closed, and another was never registered: a
\* send of it on register now blocks for ever.
C6_Witness ==
    /\ hubPc = "done" /\ doneCount = 1 /\ quit
    /\ \E c \in Sessions, d \in Sessions :
         /\ c \notin connections /\ send[c] = "open"
         /\ send[d] = "closed" /\ taskPc[d] = "done" /\ closeFrames[d] = 1

\* C7: when main has returned from wg.Wait, the pool has processed the
\* shutdown event and called wg.Done.
C7_WaitCoversShutdown == mainPc = "exited" => hubPc = "done" /\ doneCount = 1

\* C8: the pool's receive of an unregister for a connection that is not in
\* the set changes nothing: not the set, not any channel or writeLoop, and
\* the pool is back at its select.
C8_UnregisterAbsentNoop ==
    [][\A c \in Sessions :
        (c \notin connections /\ HubUnregister(c))
           => /\ UNCHANGED <<hubVars, chanVars, connVars, mainVars, histVars, wgCount>>
              /\ event'.kind = "unregisterAbsent"]_vars

\* C8 witness: the step just taken was an unregister of a connection that
\* an earlier broadcast or unregister had removed; another connection is
\* in the set.
C8_Witness ==
    /\ event.kind = "unregisterAbsent"
    /\ send[event.conn] = "closed"
    /\ handed[event.conn] # <<>>
    /\ hubPc = "select"
    /\ connections # {}

\* C9: the pool's receive of a register for a connection that is in the set
\* changes nothing; and an unregister of a connection of the set removes it
\* from the set.
C9_RegisterIdempotent ==
    [][\A c \in Sessions :
        /\ (c \in connections /\ HubRegister(c))
              => /\ UNCHANGED <<hubVars, chanVars, connVars, mainVars, histVars,
                               wgCount>>
                 /\ event'.kind = "registerDup"
        /\ (c \in connections /\ HubUnregister(c)) => c \notin connections']_vars

\* C9 witness: the step just taken was a register of a connection that was
\* in the set, had been handed a payload and is blocked in its select.
C9_Witness ==
    /\ event.kind = "registerDup"
    /\ event.conn \in connections
    /\ send[event.conn] = "open"
    /\ handed[event.conn] = <<1>>
    /\ taskPc[event.conn] = "parked"

C11_ReleasesOnce ==
    \A c \in Sessions :
        /\ wsClosed[c] = IF taskPc[c] = "done" THEN 1 ELSE 0
        /\ tickerStopped[c] <=> taskPc[c] = "done"

\* C11 witness: one writeLoop has returned after the pool closed its channel
\* (it wrote the close message), another after a failed ping (it was never
\* handed a payload and wrote no close message); each has closed its
\* websocket once.
C11_Witness ==
    \E c \in Sessions, d \in Sessions :
        /\ taskPc[c] = "done" /\ closeFrames[c] = 1 /\ send[c] = "closed"
        /\ wsClosed[c] = 1 /\ tickerStopped[c]
        /\ taskPc[d] = "done" /\ closeFrames[d] = 0 /\ handed[d] = <<>>
        /\ wsClosed[d] = 1 /\ tickerStopped[d]

\* C12 as claimed: a writeLoop that has returned has written a close message,
\* whatever made it return.
C12_CloseFrameOnEveryPath ==
    \A c \in Sessions : taskPc[c] = "done" => closeFrames[c] = 1

\* C12 as amended: a writeLoop that received ok = false from its channel
\* writes the close message, once, and closes the websocket only after it;
\* a writeLoop that returns on a failed write of a payload or of a ping
\* closes the websocket having written no close message.
C12_CloseFrameOnClosedChannel ==
    [][\A c \in Sessions :
        /\ (taskPc[c] = "closing" /\ taskPc'[c] # "closing")
              => /\ taskPc'[c] = "framed"
                 /\ closeFrames'[c] = closeFrames[c] + 1
                 /\ wsClosed'[c] = 0
        /\ closeFrames'[c] # closeFrames[c] => taskPc[c] = "closing"
        /\ wsClosed'[c] # wsClosed[c]
              => IF taskPc[c] \in {"writing", "pinging"}
                 THEN closeFrames'[c] = 0
                 ELSE taskPc[c] = "framed" /\ closeFrames'[c] = 1 /\ send[c] = "closed"
        /\ closeFrames'[c] <= 1]_vars

\* C12 witness: one writeLoop has written the close message and has not yet
\* closed its websocket; another has returned on a failed write, its
\* websocket closed with no close message written.
C12_Witness ==
    \E c \in Sessions, d \in Sessions :
        /\ taskPc[c] = "framed" /\ closeFrames[c] = 1 /\ wsClosed[c] = 0
        /\ taskPc[d] = "done" /\ closeFrames[d] = 0 /\ wsClosed[d] = 1
        /\ handed[d] # <<>>

\* writeLoop of c has returned on a failed write of a payload or of a ping.
Failed(c) == taskPc[c] = "done" /\ closeFrames[c] = 0

\* C14: the step in which a write of a payload or of a ping fails and
\* writeLoop returns changes nothing of the pool (its set, quit, the loop it
\* is in), no channel (conn.send of any connection, wspool.broadcast), no
\* other connection's writeLoop or websocket, and nothing of main; it is no
\* receive of the pool, so nothing was sent on register, unregister or
\* broadcast.
C14_WriteFailureLocal ==
    [][\A c \in Sessions :
        (taskPc[c] \in {"writing", "pinging"} /\ taskPc'[c] = "done")
           => /\ UNCHANGED <<hubVars, chanVars, mainVars, histVars, wgCount>>
              /\ UNCHANGED <<send, handed, closeFrames>>
              /\ \A d \in Sessions \ {c} :
                    /\ taskPc'[d] = taskPc[d]
                    /\ wsClosed'[d] = wsClosed[d]
                    /\ tickerStopped'[d] = tickerStopped[d]
              /\ event'.kind = "none"]_vars

\* C14 witness: the write of the first payload failed for one connection,
\* which is still in the set with its channel open, while the pool is at its
\* select and another connection of the set is blocked in its select.
C14_Witness ==
    /\ hubPc = "select" /\ ~quit /\ ~bcClosed
    /\ \E c \in connections, d \in connections :
         /\ Failed(c) /\ handed[c] = <<1>> /\ send[c] = "open"
         /\ c # d /\ taskPc[d] = "parked" /\ send[d] = "open"

\* C19: a connection whose writeLoop has returned on a failed write leaves
\* the set only in a step of the pool on it: the eviction by a payload
\* broadcast, an unregister, or the shutdown.  A payload broadcast received
\* while it is in the set has it to visit, keeps it to visit until it visits
\* it, evicts it in that visit, and ends only with nothing left to visit.
\* It is never handed a payload again.
C19_FailedEvictedByNextBroadcast ==
    [][\A c \in Sessions :
        Failed(c)
           => /\ (c \in connections /\ c \notin connections')
                    => /\ event'.conn = c
                       /\ event'.kind \in {"evict", "unregister", "shutdownClose"}
              /\ (c \in connections /\ hubPc = "select" /\ hubPc' = "fanout")
                    => c \in todo' /\ c \in connections'
              /\ (c \in connections /\ hubPc = "fanout" /\ c \in todo)
                    => \/ c \in todo' /\ c \in connections' /\ hubPc' = "fanout"
                       \/ /\ c \notin connections' /\ send'[c] = "closed"
                          /\ event' = [kind |-> "evict", conn |-> c]
              /\ (hubPc = "fanout" /\ hubPc' # "fanout") => todo = {}
              /\ handed'[c] = handed[c]
              /\ Failed(c)']_vars

\* C19 witness: the step just taken evicted, in the fan-out of the second
\* payload, a connection whose write of the first payload had failed.
C19_Witness ==
    /\ event.kind = "evict"
    /\ hubPc = "fanout" /\ payload = 2
    /\ Failed(event.conn)
    /\ handed[event.conn] = <<1>>
    /\ send[event.conn] = "closed"
    /\ event.conn \notin connections

\* C18: every connection in the pool's set has an open channel, and the
\* pool's goroutine has not panicked on a send on, or a close of, a closed
\* channel.
C18_LiveHaveOpenMailbox ==
    /\ \A c \in connections : send[c] = "open"
    /\ hubPc # "panicked"

\* C13 as claimed: the pool receives the sends on its channels in the order
\* they were begun: a receive on register or unregister completes the oldest
\* of the blocked sends, whichever channel it is on.
C13_StrictArrivalOrder ==
    [][Len(offers') < Len(offers) => offers' = Tail(offers)]_vars

\* C13 as amended: a receive on register or unregister completes the oldest
\* send blocked on that channel, and the pool processes that event; the
\* k-th payload the pool receives is the k-th main sent, and main begins
\* the send of a payload only when the one before was received.
C13_OrderPerPort ==
    [][/\ Len(offers') < Len(offers)
          => \E i \in 1..Len(offers) :
                /\ offers' = Without(i)
                /\ FirstOf(offers[i].port, i)
                /\ event'.conn = offers[i].conn
                /\ event'.kind \in
                      IF offers[i].port = "register" THEN {"register", "registerDup"}
                      ELSE {"unregister", "unregisterAbsent"}
       /\ (hubPc = "select" /\ hubPc' = "fanout")
          => /\ processed' = processed + 1
             /\ mainPc = "send" /\ payload' = mainMsg
             /\ payload' = processed'
       /\ mainMsg' # mainMsg
          => mainPc = "loop" /\ mainMsg = processed /\ mainMsg' = mainMsg + 1]_vars

\* C13 witness: the pool has received two payloads in the order sent, and
\* the step just taken received an unregister while a send on register was
\* blocked.
C13_Witness ==
    /\ event.kind \in {"unregister", "unregisterAbsent"}
    /\ processed = 2 /\ payload = 2
    /\ Len(offers) = 1 /\ offers[1].port = "register"

\* C15 as claimed: every send on the pool's channels completes: none is
\* blocked once run's loop has ended, after which nothing is received.
C15_EverySendCompletes == hubPc = "done" => offers = <<>>

\* C15 as amended: a send on register or unregister that is blocked is
\* later received, unless wspool.broadcast is closed first; a send of main
\* on wspool.broadcast is later received.  This under fairness of the pool's
\* goroutine and of its select alone: no writeLoop need take a step.
C15_SendsCompleteUntilShutdown ==
    /\ \A c \in Sessions : Pending(c) ~> (~Pending(c) \/ bcClosed)
    /\ (mainPc = "send") ~> (mainPc = "loop")

\* C15 witness: no writeLoop has taken a step; a payload was sent and
\* received (the fan-out evicted the first connection), and the step just
\* taken received the register of the second connection while another send
\* is still blocked.
C15_Witness ==
    /\ event = [kind |-> "register", conn |-> 2]
    /\ \A c \in Sessions : taskPc[c] = "init"
    /\ processed = 1 /\ mainPc = "loop"
    /\ send[1] = "closed"
    /\ offers # <<>>

\* C17: every connection that was in the set when wspool.broadcast was
\* closed, whose writeLoop had started and whose writes did not fail, has
\* written the close message and closed its websocket by the time the
\* process ends; after os.Exit no goroutine runs.
C17_ClosedSessionsFinish ==
    mainPc = "exited"
       => \A c \in liveAtClose :
             \/ taskPc[c] = "init"
             \/ Failed(c)
             \/ closeFrames[c] = 1 /\ wsClosed[c] = 1

\* ---- the tokeniser (package ury-rapid-go/tokeniser) ----

\* The bytes that matter to the token grammar, by name: a letter, a space,
\* the quote character, the backslash and the newline that ends a line.
Bytes == {"a", "SP", "QUOTE", "BSLASH", "NL"}

\* What the backend may send: every string of 1..MaxBytes bytes.
Inputs == UNION {[1..n -> Bytes] : n \in 1..MaxBytes}

\* The lexer at the start of a line: outside a quote, no escape pending, no
\* word begun.  `done` is the number of bytes that belong to finished lines.
LexStart ==
    [quoted |-> FALSE, escaped |-> FALSE, inWord |-> FALSE, word |-> <<>>,
     words |-> <<>>, lines |-> <<>>, done |-> 0]

\* The byte joins the current word.
LexPush(st, b) == [st EXCEPT !.word = Append(@, b), !.inWord = TRUE, !.escaped = FALSE]

\* White space ends the current word, if one was begun.
LexEndWord(st) ==
    IF st.inWord
    THEN [st EXCEPT !.words = Append(@, st.word), !.word = <<>>, !.inWord = FALSE]
    ELSE st

\* A newline ends the current word and the line; i is the newline's position.
LexEndLine(st, i) ==
    [LexEndWord(st) EXCEPT !.lines = Append(@, LexEndWord(st).words),
                           !.words = <<>>, !.done = i]

\* One byte of the grammar: an escaped byte is taken as it is; a backslash
\* escapes the next byte; a quote opens or closes a quoted stretch, inside
\* which white space and newlines belong to the word.
LexByte(st, b, i) ==
    IF st.escaped THEN LexPush(st, b)
    ELSE IF b = "BSLASH" THEN [st EXCEPT !.escaped = TRUE, !.inWord = TRUE]
    ELSE IF b = "QUOTE" THEN [st EXCEPT !.quoted = ~@, !.inWord = TRUE]
    ELSE IF st.quoted THEN LexPush(st, b)
    ELSE IF b = "SP" THEN LexEndWord(st)
    ELSE IF b = "NL" THEN LexEndLine(st, i)
    ELSE LexPush(st, b)

RECURSIVE LexFrom(_, _, _)
LexFrom(bytes, i, st) ==
    IF i > Len(bytes) THEN st ELSE LexFrom(bytes, i + 1, LexByte(st, bytes[i], i))

Lex(bytes) == LexFrom(bytes, 1, LexStart)

\* A decode call that forgets what the call before it left unresolved.
ParseNoCarry(buf, data) ==
    [lines |-> Lex(data).lines,
     buf |-> SubSeq(data, Lex(data).done + 1, Len(data))]

\* Tokeniser.Parse: the new bytes are resolved together with the buffered
\* ones; the lines that are complete are returned and the bytes after the
\* last of them are the new buffer.
Parse(buf, data) ==
    [lines |-> Lex(buf \o data).lines,
     buf |-> SubSeq(buf \o data, Lex(buf \o data).done + 1, Len(buf) + Len(data))]

\* The call t.Parse(data) and what it leaves behind.
CallParse(data) ==
    /\ tokOut' = tokOut \o Parse(tokBuf, data).lines
    /\ tokBuf' = Parse(tokBuf, data).buf
    /\ fed' = fed \o data
    /\ cuts' = Append(cuts, Len(data))

\* A caller that hands the tokeniser what was sent in two calls: a first
\* fragment of any length, then all the rest.
TokFeed ==
    /\ Len(cuts) < 2
    /\ \E k \in 0..Len(wire) :
        /\ Len(cuts) = 1 => k = Len(wire)
        /\ CallParse(SubSeq(wire, 1, k))
        /\ wire' = SubSeq(wire, k + 1, Len(wire))
        /\ taken' = taken \o SubSeq(wire, 1, k)
    /\ UNCHANGED poolVars

\* ---- the client's read loop (ury-rapid-go.go) ----

\* position of the first newline among the bytes on the way
FirstNL(p) == p \in 1..Len(wire) /\ wire[p] = "NL" /\ \A j \in 1..(p - 1) : wire[j] # "NL"

\* ury-rapid-go.go:18-24, one iteration.  bufio.NewReader(conn) is a new
\* reader each time: its ReadBytes('\n') fills the reader's buffer with what
\* the connection delivers, n bytes that reach at least to the first
\* newline, and returns them up to that newline; the bytes behind it stay
\* in the reader, which the next iteration replaces.
ReadLine ==
    /\ \E p \in 1..Len(wire), n \in 1..Len(wire) :
        /\ FirstNL(p)
        /\ n >= p
        /\ taken' = taken \o SubSeq(wire, 1, n)
        /\ wire' = SubSeq(wire, n + 1, Len(wire))
        /\ CallParse(SubSeq(wire, 1, p))
    /\ UNCHANGED poolVars

\* The backend has something to send and the client has just started.
InitClient == PoolInit /\ nConn = 0 /\ ClientStart /\ wire \in Inputs

\* the tokeniser fed in fragments
SpecTok == InitClient /\ [][TokFeed]_vars

\* the sample client
SpecRead == InitClient /\ [][ReadLine]_vars

\* ---- C16 ----

\* C16: however the bytes are cut into two calls, in the middle of a word or
\* of a quoted stretch too, the lines the calls have returned together are
\* the lines one call with all the bytes returns, and the buffer carried
\* over is exactly the bytes behind the last complete line, none lost and
\* none twice.
C16_TwoCallsDecodeAsOne ==
    Len(cuts) > 0 =>
        /\ tokOut = Lex(fed).lines
        /\ tokBuf = SubSeq(fed, Lex(fed).done + 1, Len(fed))
        /\ Lex(tokBuf).lines = <<>>

\* A line of one quoted word, a space, cut inside the quotes.
C16_Witness ==
    /\ cuts = <<2, 2>>
    /\ fed = <<"QUOTE", "SP", "QUOTE", "NL">>
    /\ tokOut = << << <<"SP">> >> >>
    /\ tokBuf = <<>>

\* ---- C20 ----

\* C20: the bytes passed to the tokeniser are the bytes read from the
\* connection, each once and in the order of arrival.
C20_EveryByteReadIsFed == fed = taken

====
